---- MODULE Spec2Model ----
(***************************************************************************)
(* KucoinPerpetualCandles: the candle feed of                              *)
(* hummingbot/data_feed/candles_feed/kucoin_perpetual_candles.             *)
(*                                                                         *)
(* One feed instance is modelled: its bounded deque _candles, the symbol   *)
(* map, the websocket listener (connect, subscribe, message loop) and the  *)
(* history backfill task fill_historical_candles.  The venue is the        *)
(* environment: it chooses the live candle messages and the rows of every  *)
(* history page.                                                           *)
(*                                                                         *)
(* The specifications share the variables and the operators:               *)
(*   Spec          the window, the symbol map and the backfill task, with  *)
(*                 each handler one step (FairSpec and RetrySpec add       *)
(*                 fairness);                                              *)
(*   ListenerSpec  the listener task in detail: bootstrap, socket,         *)
(*                 subscription and the kinds of inbound frame;            *)
(*   KeepaliveSpec the message loop and its ping against the clock;        *)
(*   AtomicSpec    the two writers of the window statement by statement,   *)
(*                 under the event loop that runs one coroutine at a time; *)
(*   InstancesSpec two feeds and the keepalive attributes of the class;    *)
(*   ConstructSpec the constructor's translation of the base asset.        *)
(***************************************************************************)
EXTENDS Integers, Sequences, FiniteSets, TLC

VARIABLES
    max_records,        \* _candles.maxlen, the constructor's max_records
    candles,            \* the deque _candles, left end first
    symbols_dict,       \* "empty", "has_pair" or "no_pair"
    ws_pc,              \* the listener: "connecting", "subscribing", "streaming"
    fill_started,       \* how many times fill_historical_candles was scheduled
    fpc,                \* the backfill task: "idle","symbols","loop","fetch","sleep",
                        \* "done","cancelled"
    requests_executed,  \* local of fill_historical_candles
    end_timestamp,      \* local of fill_historical_candles: the `to` of the request
    history_requested,  \* a candle-history REST request has been issued
    merge_outcome,      \* the branch the last candle frame took: "none" before
                        \* the first frame, then "first", "append", "replace", "stale";
                        \* "skipped" when the last frame had no candle payload
    ex_trading_pair,    \* _ex_trading_pair: "None" or "pair" (the string base-quote)
    last_symbols_fetch, \* how the last generate_symbols_dict ended: "none" before
                        \* the first, then "error", "empty", "has_pair", "no_pair"
    retry_pending,      \* the last history request failed and the loop has not
                        \* come back to its request since
    now,                \* self._time(), in ticks
    ping_interval,      \* _ping_interval, in ticks
    last_ws_message_sent_timestamp, \* _last_ws_message_sent_timestamp
    pings_sent,         \* ping frames handed to the socket so far
    last_message_at,    \* when the last inbound frame arrived (or the message
                        \* loop started, before the first frame)
    steady,             \* since the message loop started, no gap between frames
                        \* has reached ping_interval
    connection_info,    \* the descriptor the last bootstrap call returned
    ws_url,             \* the descriptor the socket was last connected with
    listener_exit,      \* how the listener's last call ended: "none",
                        \* "returned", "raised", "cancelled"
    running,            \* the coroutine the event loop is running: "none",
                        \* "ws" or "fill"
    todo,               \* the deque statements the running coroutine executes
                        \* before its next await
    committed,          \* the window as the running coroutine's statements
                        \* leave it when all of them are done
    snapshot_ok,        \* every candles_df read so far saw a committed window
    class_dict,         \* the attributes of the class KucoinPerpetualCandles
    instance_dict,      \* for each feed of Feeds, the attributes set on the
                        \* instance itself
    feed_pc,            \* for each feed of Feeds, where its listener is
    HB_TO_KUCOIN_MAP,   \* CONSTANTS.HB_TO_KUCOIN_MAP: the items of the dict, in
                        \* the order of the dict
    hb_base_asset,      \* self.hb_base_asset
    kucoin_base_asset   \* self.kucoin_base_asset

vars == <<max_records, candles, symbols_dict, ws_pc, fill_started, fpc,
          requests_executed, end_timestamp, history_requested, merge_outcome,
          ex_trading_pair, last_symbols_fetch, retry_pending,
          now, ping_interval, last_ws_message_sent_timestamp, pings_sent,
          last_message_at, steady, connection_info, ws_url, listener_exit,
          running, todo, committed, snapshot_ok,
          class_dict, instance_dict, feed_pc,
          HB_TO_KUCOIN_MAP, hb_base_asset, kucoin_base_asset>>

(***************************************************************************)
(* Bounds of the model.                                                     *)
(***************************************************************************)
MaxCapacity == 4        \* max_records is drawn from 1..MaxCapacity
MaxSec == 4             \* candle periods open at seconds 1..MaxSec
MaxPage == 4            \* rows in one history page: 0..MaxPage
MAX_RECORDS_LIMIT == 2  \* CONSTANTS.MAX_RECORDS_LIMIT, scaled down
MaxTicks == 4           \* the clock runs from Epoch to Epoch + MaxTicks
MaxPingInterval == 2    \* the venue's ping interval, in ticks: 1..MaxPingInterval

\* time.time() when the feed starts: seconds since 1970, far more than any
\* ping interval
Epoch == 5

\* the close prices a candle frame may carry
ClosePrices == {1, 2}

(***************************************************************************)
(* Records and timestamps.                                                  *)
(***************************************************************************)
\* timestamp = int(candles[0]) * 1000.0 : the websocket sends seconds
ToMs(sec) == sec * 1000

\* the prices of the venue's candles
Prices == {1, 2, 3}

\* a candle as the venue holds it: low <= open, close <= high
VenueCandles ==
    {c \in [open : Prices, close : Prices, high : Prices, low : Prices] :
        /\ c.low <= c.open /\ c.open <= c.high
        /\ c.low <= c.close /\ c.close <= c.high}

\* the candle of a live frame and of a history row: the close varies
VenueCandle(close) == [open |-> 1, close |-> close, high |-> 2, low |-> 1]

\* data["candles"] of an inbound frame:
\* [timestampSeconds, open, close, high, low, volume]
WsCandles(sec, c) == <<sec, c.open, c.close, c.high, c.low, 0>>

\* candles_array: the record, in the order of the columns
\* [timestamp, open, high, low, close, volume]
candles_array(f) ==
    [timestamp |-> ToMs(f[1]), open |-> f[2], high |-> f[4], low |-> f[5],
     close |-> f[3], volume |-> f[6]]

\* the record built from a websocket candle frame
CandlesArray(sec, close) == candles_array(WsCandles(sec, VenueCandle(close)))

\* a row of the candle-history endpoint, in milliseconds:
\* [timestamp, open, close, high, low, volume]
RestRow(ms, c) == <<ms, c.open, c.close, c.high, c.low, 0>>

\* fetch_candles: [row[0], row[1], row[2], row[3], row[4], row[5], ...], the
\* row's elements copied by position under the same columns
fetch_candles_row(row) ==
    [timestamp |-> row[1], open |-> row[2], high |-> row[3], low |-> row[4],
     close |-> row[5], volume |-> row[6]]

\* a row of a history page as fetch_candles returns it
HistoryRow(ms) == fetch_candles_row(RestRow(ms, VenueCandle(1)))

(***************************************************************************)
(* collections.deque(maxlen=cap)                                            *)
(***************************************************************************)
\* mutant: append on a list without maxlen
DequeAppendUnbounded(dq, cap, x) == Append(dq, x)

\* deque.append: a full deque drops its leftmost item
DequeAppend(dq, cap, x) ==
    IF cap = 0 THEN dq
    ELSE IF Len(dq) >= cap THEN Append(Tail(dq), x)
    ELSE Append(dq, x)

\* deque.pop: removes the rightmost item
DequePop(dq) == SubSeq(dq, 1, Len(dq) - 1)

\* deque.appendleft: a full deque drops its rightmost item
DequeAppendLeft(dq, cap, x) ==
    IF cap = 0 THEN dq
    ELSE IF Len(dq) >= cap THEN <<x>> \o SubSeq(dq, 1, Len(dq) - 1)
    ELSE <<x>> \o dq

\* deque.extendleft(items): appendleft of each item in turn, so the items
\* end up in reverse order at the left end
RECURSIVE DequeExtendLeft(_, _, _)
DequeExtendLeft(dq, cap, items) ==
    IF Len(items) = 0 THEN dq
    ELSE DequeExtendLeft(DequeAppendLeft(dq, cap, Head(items)), cap, Tail(items))

\* CandlesBase.ready
Ready(dq, cap) == Len(dq) = cap

RemoveAt(dq, i) == SubSeq(dq, 1, i - 1) \o SubSeq(dq, i + 1, Len(dq))

(***************************************************************************)
(* candles_df                                                               *)
(***************************************************************************)
\* DataFrame.sort_values(by="timestamp", ascending=True): the rows by
\* ascending timestamp.  The default sort is not stable, so rows of equal
\* timestamp come out in either order: the result is every sequence obtained
\* by taking out, again and again, a row whose timestamp is the least.
RECURSIVE sort_values(_)
sort_values(rows) ==
    IF Len(rows) = 0 THEN {<<>>}
    ELSE UNION {{<<rows[i]>> \o rest : rest \in sort_values(RemoveAt(rows, i))} :
                  i \in {j \in 1..Len(rows) :
                           \A k \in 1..Len(rows) :
                              rows[j].timestamp <= rows[k].timestamp}}

\* mutant: the frame is returned in the order of the deque
candles_dfUnsorted(dq) == {dq}

\* candles_df: the frames a read of the property can return
candles_df(dq) == sort_values(dq)

(***************************************************************************)
(* The venue's history endpoint                                             *)
(***************************************************************************)
Grid == {ToMs(k) : k \in 1..MaxSec}

RECURSIVE SortedSeq(_)
SortedSeq(S) ==
    IF S = {} THEN <<>>
    ELSE LET m == CHOOSE x \in S : \A y \in S : x <= y
         IN <<m>> \o SortedSeq(S \ {m})

\* every page the venue may answer a request {to: to} with: rows in
\* ascending time order, none later than `to`, at most MaxPage of them
Pages(to) ==
    {[i \in 1..Cardinality(S) |-> HistoryRow(SortedSeq(S)[i])] :
        S \in {T \in SUBSET {g \in Grid : g <= to} : Cardinality(T) <= MaxPage}}

\* mutant: candles[:-1], the slice is not cut down to the missing records
PageSliceUntrimmed(page, missing_records) == SubSeq(page, 1, Len(page) - 1)

\* candles[-(missing_records + 1):-1] : the last row is dropped, and of the
\* others at most the last missing_records are kept
PageSlice(page, missing_records) ==
    LET n == Len(page)
        lo == IF n - (missing_records + 1) < 0 THEN 0 ELSE n - (missing_records + 1)
    IN SubSeq(page, lo + 1, n - 1)

(***************************************************************************)
(* Symbol resolution                                                        *)
(***************************************************************************)
\* get_exchange_trading_pair: the string base-quote whenever the map holds
\* anything, whether or not the pair is one of its keys
get_exchange_trading_pair(dict) == IF dict # "empty" THEN "pair" ELSE "None"

\* what symbols_ready returns: bool(self._ex_trading_pair)
symbols_ready_result(pair) == pair # "None"

(***************************************************************************)
(* Attributes of the class and of its instances                             *)
(***************************************************************************)
\* the feeds made from the class in one process
Feeds == {"a", "b"}

\* the class body: _last_ws_message_sent_timestamp = 0, _ping_interval = 0
ClassAttributes == [last_ws_message_sent_timestamp |-> 0, ping_interval |-> 0]

\* self.<name>: the attribute of the instance if it has one, otherwise the
\* attribute of the class
getattr(cls, inst, name) == IF name \in DOMAIN inst THEN inst[name] ELSE cls[name]

\* d[name] = value on an attribute dictionary
setitem(d, name, value) ==
    [n \in DOMAIN d \cup {name} |-> IF n = name THEN value ELSE d[n]]

\* mutant: the assignment is made on the class (type(self).<name> = value)
setattrOnClass(cls, inst, name, value) ==
    [class |-> setitem(cls, name, value), instance |-> inst]

\* self.<name> = value: the assignment goes to the instance's own dictionary
\* and leaves the class alone
setattr(cls, inst, name, value) ==
    [class |-> cls, instance |-> setitem(inst, name, value)]

(***************************************************************************)
(* The base asset and its name at the venue                                 *)
(***************************************************************************)
MaxMapLen == 3          \* HB_TO_KUCOIN_MAP has 1..MaxMapLen entries

\* base assets as the trading pair names them, and names the venue uses
HbAssets == {"BTC", "ETH", "SOL"}

KucoinNames == {"XBT", "WETH"}

\* the dicts HB_TO_KUCOIN_MAP can be: their items in the order of the dict,
\* no key twice
AssetMaps ==
    UNION {{m \in [1..n -> HbAssets \X KucoinNames] :
              \A i, j \in 1..n : i # j => m[i][1] # m[j][1]} :
           n \in 1..MaxMapLen}

\* dict lookup with a default: HB_TO_KUCOIN_MAP.get(asset, asset)
MapGet(map, asset) ==
    IF \E i \in 1..Len(map) : map[i][1] = asset
      THEN map[CHOOSE i \in 1..Len(map) : map[i][1] = asset][2]
      ELSE asset

\* get_kucoin_base_asset: the `return` sits in the body of the `for`, so the
\* function returns in the first iteration, having looked at the first item
\* only; on an empty dict the loop body never runs and the function returns
\* None
get_kucoin_base_asset(map, asset) ==
    IF Len(map) = 0 THEN "None"
    ELSE IF map[1][1] = asset THEN map[1][2]
    ELSE asset

(***************************************************************************)
(* Initial state: the feed as constructed                                   *)
(***************************************************************************)
Init ==
    /\ max_records \in 1..MaxCapacity
    /\ candles = <<>>
    /\ symbols_dict = "empty"
    /\ ws_pc = "connecting"
    /\ fill_started = 0
    /\ fpc = "idle"
    /\ requests_executed = 0
    /\ end_timestamp = 0
    /\ history_requested = FALSE
    /\ merge_outcome = "none"
    /\ ex_trading_pair = get_exchange_trading_pair("empty")
    /\ last_symbols_fetch = "none"
    /\ retry_pending = FALSE
    /\ now = Epoch
    /\ ping_interval = 0
    /\ last_ws_message_sent_timestamp = 0
    /\ pings_sent = 0
    /\ last_message_at = 0
    /\ steady = FALSE
    /\ connection_info = "none"
    /\ ws_url = "none"
    /\ listener_exit = "none"
    /\ running = "none"
    /\ todo = <<>>
    /\ committed = <<>>
    /\ snapshot_ok = TRUE
    /\ class_dict = ClassAttributes
    /\ instance_dict = [f \in Feeds |-> <<>>]
    /\ feed_pc = [f \in Feeds |-> "connecting"]
    /\ HB_TO_KUCOIN_MAP = <<<<"BTC", "XBT">>>>
    /\ hb_base_asset = "BTC"
    /\ kucoin_base_asset = get_kucoin_base_asset(<<<<"BTC", "XBT">>>>, "BTC")

fill_vars == <<fill_started, fpc, requests_executed, end_timestamp, history_requested,
               retry_pending>>

symbol_vars == <<symbols_dict, ex_trading_pair, last_symbols_fetch>>

keepalive_vars == <<now, ping_interval, last_ws_message_sent_timestamp, pings_sent,
                    last_message_at, steady>>

conn_vars == <<connection_info, ws_url, listener_exit>>

step_vars == <<running, todo, committed, snapshot_ok>>

\* the attributes of the class and of the feeds made from it
instance_vars == <<class_dict, instance_dict, feed_pc>>

\* the base asset of the feed and its name at the venue
asset_vars == <<HB_TO_KUCOIN_MAP, hb_base_asset, kucoin_base_asset>>

\* what the steps of Spec leave alone
aux_vars == <<keepalive_vars, conn_vars, step_vars, instance_vars, asset_vars>>

(***************************************************************************)
(* The websocket listener                                                   *)
(***************************************************************************)
\* mutant: the backfill task is scheduled when the connection is made
ConnectStartsFill ==
    /\ ws_pc = "connecting"
    /\ ws_pc' = "subscribing"
    /\ fpc' = IF fpc = "idle" THEN "symbols" ELSE fpc
    /\ fill_started' = fill_started + 1
    /\ UNCHANGED <<max_records, candles, merge_outcome,
                   requests_executed, end_timestamp, history_requested,
                   retry_pending>>
    /\ UNCHANGED symbol_vars
    /\ UNCHANGED aux_vars

\* _connected_websocket_assistant: bootstrap REST call, then ws.connect
Connect ==
    /\ ws_pc = "connecting"
    /\ ws_pc' = "subscribing"
    /\ UNCHANGED <<max_records, candles, merge_outcome>>
    /\ UNCHANGED symbol_vars
    /\ UNCHANGED fill_vars
    /\ UNCHANGED aux_vars

\* mutant: a failed instrument-list request is swallowed and the loop goes round
SubscribeSymbolsRetriesOnError(outcome) ==
    /\ ws_pc = "subscribing"
    /\ symbols_dict = "empty"
    /\ last_symbols_fetch' = outcome
    /\ IF outcome = "error"
         THEN UNCHANGED <<symbols_dict, ex_trading_pair>>
         ELSE /\ symbols_dict' = outcome
              /\ ex_trading_pair' = get_exchange_trading_pair(outcome)
    /\ UNCHANGED <<max_records, candles, merge_outcome, ws_pc>>
    /\ UNCHANGED fill_vars
    /\ UNCHANGED aux_vars

\* mutant: symbols_ready asks for the instrument list before it looks at the
\* map, so every subscription fetches the list again
SubscribeSymbolsRefetches(outcome) ==
    /\ ws_pc = "subscribing"
    /\ last_symbols_fetch' = outcome
    /\ IF outcome = "error"
         THEN /\ ws_pc' = "connecting"
              /\ UNCHANGED <<symbols_dict, ex_trading_pair>>
         ELSE /\ symbols_dict' = outcome
              /\ ex_trading_pair' = get_exchange_trading_pair(outcome)
              /\ UNCHANGED ws_pc
    /\ UNCHANGED <<max_records, candles, merge_outcome>>
    /\ UNCHANGED fill_vars
    /\ UNCHANGED aux_vars

\* _subscribe_channels, symbols_ready with an empty map: one round of
\* generate_symbols_dict.  outcome "empty": the venue lists no instrument and
\* the loop goes round; "error": the request fails, generate_symbols_dict
\* re-raises, _subscribe_channels re-raises and the owner reconnects.
SubscribeSymbols(outcome) ==
    /\ ws_pc = "subscribing"
    /\ symbols_dict = "empty"
    /\ last_symbols_fetch' = outcome
    /\ IF outcome = "error"
         THEN /\ ws_pc' = "connecting"
              /\ UNCHANGED <<symbols_dict, ex_trading_pair>>
         ELSE /\ symbols_dict' = outcome
              /\ ex_trading_pair' = get_exchange_trading_pair(outcome)
              /\ UNCHANGED ws_pc
    /\ UNCHANGED <<max_records, candles, merge_outcome>>
    /\ UNCHANGED fill_vars
    /\ UNCHANGED aux_vars

\* mutant: the topic is built from the pair's name, without the lookup
SubscribeSendUnchecked ==
    /\ ws_pc = "subscribing"
    /\ symbols_dict # "empty"
    /\ ws_pc' = "streaming"
    /\ UNCHANGED <<max_records, candles, merge_outcome>>
    /\ UNCHANGED symbol_vars
    /\ UNCHANGED fill_vars
    /\ UNCHANGED aux_vars

\* _subscribe_channels once the map is populated: the topic is built from
\* symbols_dict[_ex_trading_pair] (a KeyError when the pair is absent) and the
\* subscribe frame is sent
SubscribeSend ==
    /\ ws_pc = "subscribing"
    /\ symbols_dict # "empty"
    /\ ws_pc' = IF symbols_dict = "has_pair" THEN "streaming" ELSE "connecting"
    /\ UNCHANGED <<max_records, candles, merge_outcome>>
    /\ UNCHANGED symbol_vars
    /\ UNCHANGED fill_vars
    /\ UNCHANGED aux_vars

\* mutant: only the equal timestamp is told apart, a stale record is appended
MergeAppendsStale(dq, cap, rec) ==
    IF Len(dq) = 0 THEN DequeAppend(dq, cap, rec)
    ELSE IF rec.timestamp = dq[Len(dq)].timestamp
         THEN DequeAppend(DequePop(dq), cap, rec)
    ELSE DequeAppend(dq, cap, rec)

\* mutant: `>=` for `>`, the record of an equal timestamp is appended
MergeAppendsEqual(dq, cap, rec) ==
    IF Len(dq) = 0 THEN DequeAppend(dq, cap, rec)
    ELSE IF rec.timestamp >= dq[Len(dq)].timestamp THEN DequeAppend(dq, cap, rec)
    ELSE dq

\* mutant: the equal-timestamp branch pops and does not append
MergeReplacePopsOnly(dq, cap, rec) ==
    IF Len(dq) = 0 THEN DequeAppend(dq, cap, rec)
    ELSE IF rec.timestamp > dq[Len(dq)].timestamp THEN DequeAppend(dq, cap, rec)
    ELSE IF rec.timestamp = dq[Len(dq)].timestamp THEN DequePop(dq)
    ELSE dq

\* the branches of _process_websocket_messages_from_candles on the deque
Merge(dq, cap, rec) ==
    IF Len(dq) = 0 THEN DequeAppend(dq, cap, rec)
    ELSE IF rec.timestamp > dq[Len(dq)].timestamp THEN DequeAppend(dq, cap, rec)
    ELSE IF rec.timestamp = dq[Len(dq)].timestamp
         THEN DequeAppend(DequePop(dq), cap, rec)
    ELSE dq

\* mutant: the backfill is scheduled by every frame that finds the window short
StartsFillWhenNotReady(dq) == Len(dq) < max_records

\* safe_ensure_future(self.fill_historical_candles()) is called exactly when
\* the message finds the deque empty
StartsFill(dq) == Len(dq) = 0

\* which branch a record takes on the deque
MergeBranch(dq, rec) ==
    IF Len(dq) = 0 THEN "first"
    ELSE IF rec.timestamp > dq[Len(dq)].timestamp THEN "append"
    ELSE IF rec.timestamp = dq[Len(dq)].timestamp THEN "replace"
    ELSE "stale"

\* one inbound frame with a candle payload
RecvCandle(sec, close) ==
    /\ ws_pc = "streaming"
    /\ candles' = Merge(candles, max_records, CandlesArray(sec, close))
    /\ merge_outcome' = MergeBranch(candles, CandlesArray(sec, close))
    /\ IF StartsFill(candles)
         THEN /\ fill_started' = fill_started + 1
              /\ fpc' = IF fpc = "idle" THEN "symbols" ELSE fpc
         ELSE UNCHANGED <<fill_started, fpc>>
    /\ UNCHANGED <<max_records, ws_pc, requests_executed,
                   end_timestamp, history_requested, retry_pending>>
    /\ UNCHANGED symbol_vars
    /\ UNCHANGED aux_vars

\* a transport error ends the message loop; the owner reconnects
Disconnect ==
    /\ ws_pc = "streaming"
    /\ ws_pc' = "connecting"
    /\ UNCHANGED <<max_records, candles, merge_outcome>>
    /\ UNCHANGED symbol_vars
    /\ UNCHANGED fill_vars
    /\ UNCHANGED aux_vars

(***************************************************************************)
(* fill_historical_candles                                                  *)
(***************************************************************************)
\* mutant: the budget is taken from the capacity, not from the page count
max_request_neededNoDivision == max_records + 1

max_request_needed == (max_records \div MAX_RECORDS_LIMIT) + 1

\* await self.symbols_ready() with the map already populated
FillSymbols ==
    /\ fpc = "symbols"
    /\ symbols_dict # "empty"
    /\ fpc' = "loop"
    /\ UNCHANGED <<max_records, candles, ws_pc, fill_started,
                   requests_executed, end_timestamp, history_requested,
                   merge_outcome>>
    /\ UNCHANGED symbol_vars
    /\ UNCHANGED retry_pending
    /\ UNCHANGED aux_vars

\* while not self.ready: false, the coroutine returns
FillDone ==
    /\ fpc = "loop"
    /\ Ready(candles, max_records)
    /\ fpc' = "done"
    /\ UNCHANGED <<max_records, candles, ws_pc, fill_started,
                   requests_executed, end_timestamp, history_requested,
                   merge_outcome>>
    /\ UNCHANGED symbol_vars
    /\ retry_pending' = FALSE
    /\ UNCHANGED aux_vars

\* mutant: `<=` for `<`, one request more than the budget
FillRequestOffByOne ==
    /\ fpc = "loop"
    /\ ~Ready(candles, max_records)
    /\ requests_executed <= max_request_needed
    /\ end_timestamp' = candles[1].timestamp
    /\ history_requested' = TRUE
    /\ fpc' = "fetch"
    /\ retry_pending' = FALSE
    /\ UNCHANGED <<max_records, candles, ws_pc, fill_started,
                   requests_executed, merge_outcome>>
    /\ UNCHANGED symbol_vars
    /\ UNCHANGED aux_vars

\* one round with budget left: end_timestamp = int(self._candles[0][0]) and
\* fetch_candles(end_time=end_timestamp) issues the request
FillRequest ==
    /\ fpc = "loop"
    /\ ~Ready(candles, max_records)
    /\ requests_executed < max_request_needed
    /\ end_timestamp' = candles[1].timestamp
    /\ history_requested' = TRUE
    /\ fpc' = "fetch"
    /\ retry_pending' = FALSE
    /\ UNCHANGED <<max_records, candles, ws_pc, fill_started,
                   requests_executed, merge_outcome>>
    /\ UNCHANGED symbol_vars
    /\ UNCHANGED aux_vars

\* one round with the budget spent: the error is logged, and the bare `raise`
\* with no active exception raises RuntimeError, which the `except Exception`
\* of the same try handles: the loop sleeps one second
FillExhausted ==
    /\ fpc = "loop"
    /\ ~Ready(candles, max_records)
    /\ ~(requests_executed < max_request_needed)
    /\ fpc' = "sleep"
    /\ UNCHANGED <<max_records, candles, ws_pc, fill_started,
                   requests_executed, end_timestamp, history_requested,
                   merge_outcome>>
    /\ UNCHANGED symbol_vars
    /\ UNCHANGED retry_pending
    /\ UNCHANGED aux_vars

\* what the loop does with a page: missing_records is computed again and the
\* slice goes to extendleft
Backfill(dq, cap, page) == DequeExtendLeft(dq, cap, PageSlice(page, cap - Len(dq)))

\* the request returns a page
FetchOk(page) ==
    /\ fpc = "fetch"
    /\ candles' = Backfill(candles, max_records, page)
    /\ requests_executed' = requests_executed + 1
    /\ fpc' = "loop"
    /\ UNCHANGED <<max_records, ws_pc, fill_started,
                   end_timestamp, history_requested, merge_outcome, retry_pending>>
    /\ UNCHANGED symbol_vars
    /\ UNCHANGED aux_vars

\* mutant: a failed request is counted like a page
FetchFailCountsRequest ==
    /\ fpc = "fetch"
    /\ fpc' = "sleep"
    /\ requests_executed' = requests_executed + 1
    /\ retry_pending' = TRUE
    /\ UNCHANGED <<max_records, candles, ws_pc, fill_started,
                   end_timestamp, history_requested, merge_outcome>>
    /\ UNCHANGED symbol_vars
    /\ UNCHANGED aux_vars

\* the request fails (network error, malformed response)
FetchFail ==
    /\ fpc = "fetch"
    /\ fpc' = "sleep"
    /\ UNCHANGED <<max_records, candles, ws_pc, fill_started,
                   requests_executed, end_timestamp, history_requested,
                   merge_outcome>>
    /\ UNCHANGED symbol_vars
    /\ retry_pending' = TRUE
    /\ UNCHANGED aux_vars

\* await self._sleep(1.0) returns
SleepDone ==
    /\ fpc = "sleep"
    /\ fpc' = "loop"
    /\ UNCHANGED <<max_records, candles, ws_pc, fill_started,
                   requests_executed, end_timestamp, history_requested,
                   merge_outcome>>
    /\ UNCHANGED symbol_vars
    /\ UNCHANGED retry_pending
    /\ UNCHANGED aux_vars

\* mutant: the CancelledError of the page fetch is caught by the retry handler
FillCancelSwallowed ==
    /\ fpc \in {"symbols", "fetch", "sleep"}
    /\ fpc' = IF fpc = "fetch" THEN "sleep" ELSE "cancelled"
    /\ UNCHANGED <<max_records, candles, ws_pc, fill_started,
                   requests_executed, end_timestamp, history_requested,
                   merge_outcome, retry_pending>>
    /\ UNCHANGED symbol_vars
    /\ UNCHANGED aux_vars

\* the task is cancelled while it waits at one of its awaits: symbols_ready
\* (outside the try), the page fetch (`except asyncio.CancelledError: raise`)
\* or the retry sleep (inside the handler, so nothing catches it)
FillCancel ==
    /\ fpc \in {"symbols", "fetch", "sleep"}
    /\ fpc' = "cancelled"
    /\ UNCHANGED <<max_records, candles, ws_pc, fill_started,
                   requests_executed, end_timestamp, history_requested,
                   merge_outcome, retry_pending>>
    /\ UNCHANGED symbol_vars
    /\ UNCHANGED aux_vars

(***************************************************************************)
(* Specification                                                            *)
(***************************************************************************)
RecvCandleMsg == \E sec \in 1..MaxSec, close \in ClosePrices : RecvCandle(sec, close)

\* how one instrument-list request can end
SymbolsOutcomes == {"empty", "has_pair", "no_pair", "error"}

SubscribeSymbolsStep == \E outcome \in SymbolsOutcomes : SubscribeSymbols(outcome)

FetchOkStep == \E page \in Pages(end_timestamp) : FetchOk(page)

Next ==
    \/ Connect
    \/ SubscribeSymbolsStep
    \/ SubscribeSend
    \/ RecvCandleMsg
    \/ Disconnect
    \/ FillSymbols
    \/ FillDone
    \/ FillRequest
    \/ FillExhausted
    \/ FetchOkStep
    \/ FetchFail
    \/ SleepDone
    \/ FillCancel

Spec == Init /\ [][Next]_vars

\* the event loop runs a task that can run, a sleep ends, and a history
\* request that is issued again and again eventually returns a page
FairSpec ==
    /\ Spec
    /\ WF_vars(FillSymbols)
    /\ WF_vars(FillDone)
    /\ WF_vars(FillRequest)
    /\ WF_vars(FillExhausted)
    /\ WF_vars(SleepDone)
    /\ WF_vars(FetchOkStep \/ FetchFail)
    /\ SF_vars(FetchOkStep)

\* the event loop runs a task that can run, a sleep ends and a history
\* request comes to an end, with a page or with an error: nothing says that
\* a request ever succeeds
RetrySpec ==
    /\ Spec
    /\ WF_vars(FillSymbols)
    /\ WF_vars(FillDone)
    /\ WF_vars(FillRequest)
    /\ WF_vars(FillExhausted)
    /\ WF_vars(SleepDone)
    /\ WF_vars(FetchOkStep \/ FetchFail)

(***************************************************************************)
(* The listener task in detail                                              *)
(*                                                                          *)
(* ws_pc takes two more values here: "opening", between the bootstrap call  *)
(* and ws.connect, and "pinging", while the ping frame is being sent; and   *)
(* "cancelled" once the task has been cancelled.  The backfill task is      *)
(* scheduled by the first frame as in Spec; its steps are not part of this  *)
(* specification.                                                           *)
(***************************************************************************)
window_vars == <<max_records, candles, merge_outcome>>

\* the descriptors the bootstrap endpoint can return (endpoint and token)
Descriptors == {"d1", "d2"}

\* int(pingInterval) * 0.8 * 1e-3, in ticks
PingIntervals == 1..MaxPingInterval

\* _connected_websocket_assistant up to its second await: the bootstrap call
\* returns the descriptor and _ping_interval is set from it
Bootstrap(info, interval) ==
    /\ ws_pc = "connecting"
    /\ connection_info' = info
    /\ ping_interval' = interval
    /\ ws_pc' = "opening"
    /\ UNCHANGED <<now, last_ws_message_sent_timestamp, pings_sent,
                   last_message_at, steady, ws_url, listener_exit>>
    /\ UNCHANGED <<window_vars, symbol_vars, fill_vars, step_vars,
                   instance_vars, asset_vars>>

\* mutant: the socket is connected with the descriptor of an earlier attempt
WsConnectStale ==
    /\ ws_pc = "opening"
    /\ ws_url' = IF ws_url = "none" THEN connection_info ELSE ws_url
    /\ ws_pc' = "subscribing"
    /\ UNCHANGED <<connection_info, listener_exit>>
    /\ UNCHANGED <<window_vars, symbol_vars, fill_vars, keepalive_vars,
                   step_vars, instance_vars, asset_vars>>

\* ws.connect(ws_url=f"{ws_url}?token={token}") with the descriptor just
\* returned
WsConnect ==
    /\ ws_pc = "opening"
    /\ ws_url' = connection_info
    /\ ws_pc' = "subscribing"
    /\ UNCHANGED <<connection_info, listener_exit>>
    /\ UNCHANGED <<window_vars, symbol_vars, fill_vars, keepalive_vars,
                   step_vars, instance_vars, asset_vars>>

\* ws.connect raises: the owner starts the connection again
WsConnectFails ==
    /\ ws_pc = "opening"
    /\ ws_pc' = "connecting"
    /\ UNCHANGED <<window_vars, symbol_vars, fill_vars, keepalive_vars, conn_vars,
                   step_vars, instance_vars, asset_vars>>

\* mutant: `except Exception` logs and does not re-raise
subscribe_exceptSwallows(fault) ==
    IF fault = "none" THEN "returned"
    ELSE IF fault = "cancel" THEN "cancelled"
    ELSE "returned"

\* the try of _subscribe_channels: how the call ends, given what went wrong
\* in it ("none", "fetch_error", "key_error", "send_error" or "cancel").
\* `except asyncio.CancelledError: raise`; `except Exception:` logs and raises.
subscribe_except(fault) ==
    IF fault = "none" THEN "returned"
    ELSE IF fault = "cancel" THEN "cancelled"
    ELSE "raised"

\* where the listener goes when _subscribe_channels has ended: on to the
\* message loop, back to the owner's reconnection, or out
AfterSubscribe(exit) ==
    IF exit = "returned" THEN "streaming"
    ELSE IF exit = "raised" THEN "connecting"
    ELSE "cancelled"

\* symbols_ready with an empty map, called by _subscribe_channels: one round
\* of generate_symbols_dict
ListenSymbols(outcome) ==
    /\ ws_pc = "subscribing"
    /\ symbols_dict = "empty"
    /\ last_symbols_fetch' = outcome
    /\ IF outcome = "error"
         THEN /\ listener_exit' = subscribe_except("fetch_error")
              /\ ws_pc' = AfterSubscribe(listener_exit')
              /\ UNCHANGED <<symbols_dict, ex_trading_pair>>
              /\ IF ws_pc' = "streaming"
                   THEN last_message_at' = now /\ steady' = TRUE
                   ELSE UNCHANGED <<last_message_at, steady>>
         ELSE /\ symbols_dict' = outcome
              /\ ex_trading_pair' = get_exchange_trading_pair(outcome)
              /\ UNCHANGED <<ws_pc, listener_exit, last_message_at, steady>>
    /\ UNCHANGED <<now, ping_interval, last_ws_message_sent_timestamp, pings_sent,
                   connection_info, ws_url>>
    /\ UNCHANGED <<window_vars, fill_vars, step_vars, instance_vars, asset_vars>>

\* the fault of the rest of _subscribe_channels: the lookup
\* symbols_dict[_ex_trading_pair] raises KeyError when the pair is absent,
\* and ws.send may fail
SendFault(sent) ==
    IF symbols_dict # "has_pair" THEN "key_error"
    ELSE IF ~sent THEN "send_error"
    ELSE "none"

\* _subscribe_channels once the map is populated: the topic, the subscribe
\* frame, and then the message loop starts
ListenSubscribe(sent) ==
    /\ ws_pc = "subscribing"
    /\ symbols_dict # "empty"
    /\ listener_exit' = subscribe_except(SendFault(sent))
    /\ ws_pc' = AfterSubscribe(listener_exit')
    /\ IF ws_pc' = "streaming"
         THEN last_message_at' = now /\ steady' = TRUE
         ELSE UNCHANGED <<last_message_at, steady>>
    /\ UNCHANGED <<now, ping_interval, last_ws_message_sent_timestamp, pings_sent,
                   connection_info, ws_url>>
    /\ UNCHANGED <<window_vars, symbol_vars, fill_vars, step_vars,
                   instance_vars, asset_vars>>

\* the listener is cancelled while _subscribe_channels waits at an await
ListenCancel ==
    /\ ws_pc = "subscribing"
    /\ listener_exit' = subscribe_except("cancel")
    /\ ws_pc' = AfterSubscribe(listener_exit')
    /\ IF ws_pc' = "streaming"
         THEN last_message_at' = now /\ steady' = TRUE
         ELSE UNCHANGED <<last_message_at, steady>>
    /\ UNCHANGED <<now, ping_interval, last_ws_message_sent_timestamp, pings_sent,
                   connection_info, ws_url>>
    /\ UNCHANGED <<window_vars, symbol_vars, fill_vars, step_vars,
                   instance_vars, asset_vars>>

\* the message loop is inside its wait_for
InMessageLoop == ws_pc \in {"streaming", "pinging"}

\* time passes
Tick ==
    /\ now < Epoch + MaxTicks
    /\ now' = now + 1
    /\ steady' = (steady /\ (InMessageLoop => now' - last_message_at < ping_interval))
    /\ UNCHANGED <<ping_interval, last_ws_message_sent_timestamp, pings_sent,
                   last_message_at, ws_pc>>
    /\ UNCHANGED <<window_vars, symbol_vars, fill_vars, conn_vars, step_vars,
                   instance_vars, asset_vars>>

\* mutant: the message handler records the time of the frame as the time of
\* the last message sent, which moves the deadline of the ping
OnCandleRearms(sec, close) ==
    /\ ws_pc = "streaming"
    /\ candles' = Merge(candles, max_records, CandlesArray(sec, close))
    /\ merge_outcome' = MergeBranch(candles, CandlesArray(sec, close))
    /\ IF StartsFill(candles)
         THEN /\ fill_started' = fill_started + 1
              /\ fpc' = IF fpc = "idle" THEN "symbols" ELSE fpc
         ELSE UNCHANGED <<fill_started, fpc>>
    /\ last_message_at' = now
    /\ last_ws_message_sent_timestamp' = now
    /\ UNCHANGED <<max_records, ws_pc, requests_executed,
                   end_timestamp, history_requested, retry_pending>>
    /\ UNCHANGED <<now, ping_interval, pings_sent, steady>>
    /\ UNCHANGED <<symbol_vars, conn_vars, step_vars, instance_vars, asset_vars>>

\* an inbound frame with a candle payload, handled as in RecvCandle
OnCandle(sec, close) ==
    /\ ws_pc = "streaming"
    /\ candles' = Merge(candles, max_records, CandlesArray(sec, close))
    /\ merge_outcome' = MergeBranch(candles, CandlesArray(sec, close))
    /\ IF StartsFill(candles)
         THEN /\ fill_started' = fill_started + 1
              /\ fpc' = IF fpc = "idle" THEN "symbols" ELSE fpc
         ELSE UNCHANGED <<fill_started, fpc>>
    /\ last_message_at' = now
    /\ UNCHANGED <<max_records, ws_pc, requests_executed,
                   end_timestamp, history_requested, retry_pending>>
    /\ UNCHANGED <<now, ping_interval, last_ws_message_sent_timestamp, pings_sent,
                   steady>>
    /\ UNCHANGED <<symbol_vars, conn_vars, step_vars, instance_vars, asset_vars>>

\* the frames of the venue that carry no candle payload, as ws_response.data
ControlFrames ==
    {[id |-> "1", type |-> "welcome"],
     [id |-> "1", type |-> "ack"],
     [id |-> "1", type |-> "pong"],
     [type |-> "message", subject |-> "other", data |-> [symbol |-> "s"]]}

\* mutant: the default of the lookup is a payload with a candle in it
data_getDefaultsToCandle(msg) ==
    IF "data" \in DOMAIN msg THEN msg.data
    ELSE [candles |-> WsCandles(1, VenueCandle(1))]

\* data.get("data", {})
data_get(msg) == IF "data" \in DOMAIN msg THEN msg.data ELSE <<>>

\* one inbound frame, from ws_response.data on: the candle payload, if the
\* frame has one, is merged as in RecvCandle; any other frame is passed over
OnFrame(msg) ==
    /\ ws_pc = "streaming"
    /\ IF "candles" \in DOMAIN data_get(msg)
         THEN /\ candles' = Merge(candles, max_records,
                                  candles_array(data_get(msg).candles))
              /\ merge_outcome' =
                    MergeBranch(candles, candles_array(data_get(msg).candles))
              /\ IF StartsFill(candles)
                   THEN /\ fill_started' = fill_started + 1
                        /\ fpc' = IF fpc = "idle" THEN "symbols" ELSE fpc
                   ELSE UNCHANGED <<fill_started, fpc>>
         ELSE /\ merge_outcome' = "skipped"
              /\ UNCHANGED <<candles, fill_started, fpc>>
    /\ last_message_at' = now
    /\ UNCHANGED <<max_records, ws_pc, requests_executed,
                   end_timestamp, history_requested, retry_pending>>
    /\ UNCHANGED <<now, ping_interval, last_ws_message_sent_timestamp, pings_sent,
                   steady>>
    /\ UNCHANGED <<symbol_vars, conn_vars, step_vars, instance_vars, asset_vars>>

\* the payloads the handler has no branch for
MalformedPayloads == {"null_data", "short_candles", "non_numeric"}

\* an inbound frame the handler chokes on: {"data": null} makes
\* `"candles" in data` a TypeError, a short candle list an IndexError at
\* candles[5], a non-numeric timestamp a ValueError at int(candles[0]).  No
\* handler catches them: _process_websocket_messages handles TimeoutError
\* only, so the exception ends the message loop and goes to the owner.
OnMalformed(payload) ==
    /\ ws_pc = "streaming"
    /\ ws_pc' = "connecting"
    /\ last_message_at' = now
    /\ UNCHANGED <<now, ping_interval, last_ws_message_sent_timestamp, pings_sent,
                   steady>>
    /\ UNCHANGED <<window_vars, symbol_vars, fill_vars, conn_vars, step_vars,
                   instance_vars, asset_vars>>

\* mutant: the timeout branch sends the ping and leaves the timestamp alone
KeepaliveTimeoutKeepsStamp ==
    /\ ws_pc = "streaming"
    /\ now >= last_ws_message_sent_timestamp + ping_interval
    /\ pings_sent' = pings_sent + 1
    /\ ws_pc' = "pinging"
    /\ UNCHANGED <<now, ping_interval, last_ws_message_sent_timestamp,
                   last_message_at, steady>>
    /\ UNCHANGED <<window_vars, symbol_vars, fill_vars, conn_vars, step_vars,
                   instance_vars, asset_vars>>

\* the wait_for around the whole message coroutine times out.  Its timeout is
\* _ping_interval - (now - _last_ws_message_sent_timestamp), taken when the
\* wait starts, so the wait ends at _last_ws_message_sent_timestamp +
\* _ping_interval whenever it started and whatever frames came in.  The
\* timeout branch records the time and sends one ping.
KeepaliveTimeout ==
    /\ ws_pc = "streaming"
    /\ now >= last_ws_message_sent_timestamp + ping_interval
    /\ last_ws_message_sent_timestamp' = now
    /\ pings_sent' = pings_sent + 1
    /\ ws_pc' = "pinging"
    /\ UNCHANGED <<now, ping_interval, last_message_at, steady>>
    /\ UNCHANGED <<window_vars, symbol_vars, fill_vars, conn_vars, step_vars,
                   instance_vars, asset_vars>>

\* await websocket_assistant.send(ping) returns and the next wait begins
PingSent ==
    /\ ws_pc = "pinging"
    /\ ws_pc' = "streaming"
    /\ UNCHANGED <<window_vars, symbol_vars, fill_vars, keepalive_vars, conn_vars,
                   step_vars, instance_vars, asset_vars>>

\* a transport error ends the message loop, while it waits for a frame or
\* while it sends the ping; the owner reconnects
ListenDisconnect ==
    /\ InMessageLoop
    /\ ws_pc' = "connecting"
    /\ UNCHANGED <<window_vars, symbol_vars, fill_vars, keepalive_vars, conn_vars,
                   step_vars, instance_vars, asset_vars>>

(***************************************************************************)
(* ListenerSpec: connection, subscription and the kinds of frame.  The       *)
(* clock stands still and the keepalive is left out.                        *)
(***************************************************************************)
BootstrapStep == \E info \in Descriptors : Bootstrap(info, MaxPingInterval)

ListenSymbolsStep == \E outcome \in SymbolsOutcomes : ListenSymbols(outcome)

ListenSubscribeStep == \E sent \in BOOLEAN : ListenSubscribe(sent)

OnCandleMsg == \E sec \in 1..MaxSec, close \in ClosePrices : OnCandle(sec, close)

OnMalformedMsg == \E payload \in MalformedPayloads : OnMalformed(payload)

OnControlMsg == \E msg \in ControlFrames : OnFrame(msg)

ListenerNext ==
    \/ BootstrapStep
    \/ WsConnect
    \/ WsConnectFails
    \/ ListenSymbolsStep
    \/ ListenSubscribeStep
    \/ ListenCancel
    \/ OnCandleMsg
    \/ OnMalformedMsg
    \/ OnControlMsg
    \/ ListenDisconnect

ListenerSpec == Init /\ [][ListenerNext]_vars

(***************************************************************************)
(* KeepaliveSpec: the message loop against the clock.  The connection is    *)
(* made without a fault, and the frames are candle frames of the first two  *)
(* periods.                                                                 *)
(***************************************************************************)
KeepaliveBootstrap == \E interval \in PingIntervals : Bootstrap("d1", interval)

KeepaliveSymbols == ListenSymbols("has_pair")

KeepaliveSubscribe == ListenSubscribe(TRUE)

KeepaliveCandleMsg == \E sec \in {1, 2} : OnCandle(sec, 1)

KeepaliveNext ==
    \/ KeepaliveBootstrap
    \/ WsConnect
    \/ KeepaliveSymbols
    \/ KeepaliveSubscribe
    \/ Tick
    \/ KeepaliveCandleMsg
    \/ KeepaliveTimeout
    \/ PingSent
    \/ ListenDisconnect

KeepaliveSpec == Init /\ [][KeepaliveNext]_vars

(***************************************************************************)
(* AtomicSpec: the writers of the window statement by statement.            *)
(*                                                                          *)
(* The event loop runs one coroutine at a time and takes it back only at an *)
(* await.  A coroutine that is resumed stages the deque statements it       *)
(* executes before its next await; they run one by one; every other task,   *)
(* the reader of candles_df and the keepalive timeout run only while no     *)
(* coroutine is running.                                                    *)
(***************************************************************************)
\* one statement on the deque
DequeStatement(dq, cap, st) ==
    IF st.op = "append" THEN DequeAppend(dq, cap, st.rec)
    ELSE IF st.op = "appendleft" THEN DequeAppendLeft(dq, cap, st.rec)
    ELSE DequePop(dq)

\* the deque statements of the branches of the message handler, in the order
\* of the code: append; append; pop, then append; none
MergeStatements(dq, rec) ==
    IF Len(dq) = 0 THEN <<[op |-> "append", rec |-> rec]>>
    ELSE IF rec.timestamp > dq[Len(dq)].timestamp
         THEN <<[op |-> "append", rec |-> rec]>>
    ELSE IF rec.timestamp = dq[Len(dq)].timestamp
         THEN <<[op |-> "pop", rec |-> rec], [op |-> "append", rec |-> rec]>>
    ELSE <<>>

\* extendleft(candles[-(missing_records + 1):-1]): one appendleft for each
\* row of the slice, in the order of the slice
BackfillStatements(dq, cap, page) ==
    LET items == PageSlice(page, cap - Len(dq))
    IN [i \in 1..Len(items) |-> [op |-> "appendleft", rec |-> items[i]]]

\* mutant: an await sits between the statements, as with a lock that is
\* awaited before each of them
AtAwaitAnywhere(sts) == TRUE

\* the running coroutine reaches its next await when the statements it staged
\* are done: there is no await between `pop` and `append`, nor inside
\* extendleft
AtAwait(sts) == sts = <<>>

\* the message coroutine is resumed with a candle frame
WsFrame(sec, close) ==
    /\ ws_pc = "streaming"
    /\ running = "none"
    /\ running' = "ws"
    /\ todo' = MergeStatements(candles, CandlesArray(sec, close))
    /\ committed' = Merge(candles, max_records, CandlesArray(sec, close))
    /\ merge_outcome' = MergeBranch(candles, CandlesArray(sec, close))
    /\ IF StartsFill(candles)
         THEN /\ fill_started' = fill_started + 1
              /\ fpc' = IF fpc = "idle" THEN "symbols" ELSE fpc
         ELSE UNCHANGED <<fill_started, fpc>>
    /\ UNCHANGED <<max_records, candles, ws_pc, requests_executed,
                   end_timestamp, history_requested, retry_pending, snapshot_ok>>
    /\ UNCHANGED <<symbol_vars, keepalive_vars, conn_vars, instance_vars,
                   asset_vars>>

\* the backfill coroutine is resumed with the page of its request
FillPage(page) ==
    /\ fpc = "fetch"
    /\ running = "none"
    /\ running' = "fill"
    /\ todo' = BackfillStatements(candles, max_records, page)
    /\ committed' = Backfill(candles, max_records, page)
    /\ requests_executed' = requests_executed + 1
    /\ fpc' = "loop"
    /\ UNCHANGED <<max_records, candles, ws_pc, fill_started,
                   end_timestamp, history_requested, merge_outcome, retry_pending,
                   snapshot_ok>>
    /\ UNCHANGED <<symbol_vars, keepalive_vars, conn_vars, instance_vars,
                   asset_vars>>

\* the running coroutine executes its next deque statement
Statement ==
    /\ running # "none"
    /\ todo # <<>>
    /\ candles' = DequeStatement(candles, max_records, Head(todo))
    /\ todo' = Tail(todo)
    /\ UNCHANGED <<max_records, symbols_dict, ws_pc, fill_started, fpc,
                   requests_executed, end_timestamp, history_requested,
                   merge_outcome, ex_trading_pair, last_symbols_fetch,
                   retry_pending, running, committed, snapshot_ok>>
    /\ UNCHANGED <<keepalive_vars, conn_vars, instance_vars, asset_vars>>

\* the running coroutine reaches an await and the event loop takes over
Await ==
    /\ running # "none"
    /\ AtAwait(todo)
    /\ running' = "none"
    /\ UNCHANGED <<window_vars, symbol_vars, fill_vars, ws_pc, keepalive_vars,
                   conn_vars, instance_vars, asset_vars, todo, committed, snapshot_ok>>

\* a consumer reads candles_df: plain code of another task, run by the event
\* loop
Snapshot ==
    /\ running = "none"
    /\ snapshot_ok' = (snapshot_ok /\ candles = committed)
    /\ UNCHANGED <<window_vars, symbol_vars, fill_vars, ws_pc, keepalive_vars,
                   conn_vars, instance_vars, asset_vars, running, todo, committed>>

\* the timeout of wait_for cancels the message coroutine where it is
\* suspended; what it had not yet executed is never executed
TimeoutCancel ==
    /\ running = "none"
    /\ ws_pc = "streaming"
    /\ todo' = <<>>
    /\ UNCHANGED <<window_vars, symbol_vars, fill_vars, ws_pc, keepalive_vars,
                   conn_vars, instance_vars, asset_vars, running, committed, snapshot_ok>>

WsFrameMsg == \E sec \in 1..MaxSec, close \in ClosePrices : WsFrame(sec, close)

FillPageStep == \E page \in Pages(end_timestamp) : FillPage(page)

\* the steps of Spec that do not write the window, run by the event loop
LoopStep ==
    /\ running = "none"
    /\ \/ Connect
       \/ SubscribeSymbolsStep
       \/ SubscribeSend
       \/ Disconnect
       \/ FillSymbols
       \/ FillDone
       \/ FillRequest
       \/ FillExhausted
       \/ FetchFail
       \/ SleepDone
       \/ FillCancel

AtomicNext ==
    \/ WsFrameMsg
    \/ FillPageStep
    \/ Statement
    \/ Await
    \/ Snapshot
    \/ TimeoutCancel
    \/ LoopStep

AtomicSpec == Init /\ [][AtomicNext]_vars

(***************************************************************************)
(* InstancesSpec: the feeds of Feeds side by side, each with its listener   *)
(* reduced to the steps that read or write the keepalive attributes.        *)
(***************************************************************************)
\* self._ping_interval and self._last_ws_message_sent_timestamp as feed f
\* reads them
feed_ping_interval(f) == getattr(class_dict, instance_dict[f], "ping_interval")

feed_last_ws_message_sent_timestamp(f) ==
    getattr(class_dict, instance_dict[f], "last_ws_message_sent_timestamp")

\* feed f executes self.<name> = value
FeedAssign(f, name, value) ==
    /\ class_dict' = setattr(class_dict, instance_dict[f], name, value).class
    /\ instance_dict' =
          [instance_dict EXCEPT
              ![f] = setattr(class_dict, instance_dict[f], name, value).instance]

\* _connected_websocket_assistant of feed f: self._ping_interval is set from
\* the descriptor, and the listener goes on to its message loop
FeedBootstrap(f, interval) ==
    /\ feed_pc[f] = "connecting"
    /\ FeedAssign(f, "ping_interval", interval)
    /\ feed_pc' = [feed_pc EXCEPT ![f] = "streaming"]
    /\ UNCHANGED <<window_vars, symbol_vars, fill_vars, ws_pc, keepalive_vars,
                   conn_vars, step_vars, asset_vars>>

\* the wait_for of feed f times out: the deadline is computed from the
\* attributes as f reads them, and self._last_ws_message_sent_timestamp is set
FeedTimeout(f) ==
    /\ feed_pc[f] = "streaming"
    /\ now >= feed_last_ws_message_sent_timestamp(f) + feed_ping_interval(f)
    /\ FeedAssign(f, "last_ws_message_sent_timestamp", now)
    /\ feed_pc' = [feed_pc EXCEPT ![f] = "pinging"]
    /\ UNCHANGED <<window_vars, symbol_vars, fill_vars, ws_pc, keepalive_vars,
                   conn_vars, step_vars, asset_vars>>

\* the ping of feed f is sent and its next wait begins
FeedPingSent(f) ==
    /\ feed_pc[f] = "pinging"
    /\ feed_pc' = [feed_pc EXCEPT ![f] = "streaming"]
    /\ UNCHANGED <<window_vars, symbol_vars, fill_vars, ws_pc, keepalive_vars,
                   conn_vars, step_vars, asset_vars, class_dict, instance_dict>>

\* the connection of feed f is lost and its owner connects again
FeedDisconnect(f) ==
    /\ feed_pc[f] \in {"streaming", "pinging"}
    /\ feed_pc' = [feed_pc EXCEPT ![f] = "connecting"]
    /\ UNCHANGED <<window_vars, symbol_vars, fill_vars, ws_pc, keepalive_vars,
                   conn_vars, step_vars, asset_vars, class_dict, instance_dict>>

FeedBootstrapStep == \E f \in Feeds, interval \in PingIntervals : FeedBootstrap(f, interval)

FeedTimeoutStep == \E f \in Feeds : FeedTimeout(f)

FeedPingSentStep == \E f \in Feeds : FeedPingSent(f)

FeedDisconnectStep == \E f \in Feeds : FeedDisconnect(f)

InstancesNext ==
    \/ FeedBootstrapStep
    \/ FeedTimeoutStep
    \/ FeedPingSentStep
    \/ FeedDisconnectStep
    \/ Tick

InstancesSpec == Init /\ [][InstancesNext]_vars

(***************************************************************************)
(* ConstructSpec: feeds constructed for every base asset under every        *)
(* HB_TO_KUCOIN_MAP.                                                        *)
(***************************************************************************)
\* __init__: hb_base_asset is the first part of the trading pair and
\* kucoin_base_asset is get_kucoin_base_asset()
Construct(map, asset) ==
    /\ HB_TO_KUCOIN_MAP' = map
    /\ hb_base_asset' = asset
    /\ kucoin_base_asset' = get_kucoin_base_asset(map, asset)
    /\ UNCHANGED <<window_vars, symbol_vars, fill_vars, ws_pc, keepalive_vars,
                   conn_vars, step_vars, instance_vars>>

ConstructStep == \E map \in AssetMaps, asset \in HbAssets : Construct(map, asset)

ConstructSpec == Init /\ [][ConstructStep]_vars

(***************************************************************************)
(* Properties of the candle window                                          *)
(***************************************************************************)
StrictlyAscending(dq) ==
    \A i \in 1..(Len(dq) - 1) : dq[i].timestamp < dq[i + 1].timestamp

TimestampSet(dq) == {dq[i].timestamp : i \in 1..Len(dq)}

MinTimestamp(dq) == CHOOSE t \in TimestampSet(dq) : \A u \in TimestampSet(dq) : t <= u

\* C1: in every reachable state, whatever the interleaving of live merges and
\* backfill prepends, the window read from left to right has strictly
\* ascending timestamps, so no two records share a timestamp.
C1_WindowStrictlyAscending == StrictlyAscending(candles)

\* C2: as long as only live candle frames have changed the window (no history
\* page has been applied), its timestamps are strictly ascending after every
\* frame, whatever the mix of newer, repeated and stale timestamps.
C2_LiveMergesKeepAscending ==
    requests_executed = 0 => StrictlyAscending(candles)

\* a window filled by live frames alone, the last of which was stale
C2_Witness ==
    /\ requests_executed = 0
    /\ max_records >= 3
    /\ Len(candles) = max_records
    /\ merge_outcome = "stale"

\* C3: a live frame with t > tLast that finds the window full removes the
\* record with the smallest timestamp of the window, the new record becomes
\* the newest and the length stays at capacity.
C3_FullAppendEvictsOldest ==
    [][\A sec \in 1..MaxSec, close \in ClosePrices :
          (/\ Len(candles) = max_records
           /\ ToMs(sec) > candles[Len(candles)].timestamp
           /\ RecvCandle(sec, close))
          => /\ Len(candles') = max_records
             /\ candles'[Len(candles')] = CandlesArray(sec, close)
             /\ \E i \in 1..Len(candles) :
                   /\ candles[i].timestamp = MinTimestamp(candles)
                   /\ SubSeq(candles', 1, Len(candles') - 1) = RemoveAt(candles, i)
      ]_vars

\* C4: a history page applied by the backfill loop never inserts a record
\* whose timestamp is already in the window.
C4_BackfillInsertsNoKnownTimestamp ==
    [][(\E page \in Pages(end_timestamp) : FetchOk(page))
          => \A i \in 1..(Len(candles') - Len(candles)) :
                candles'[i].timestamp \notin TimestampSet(candles)
      ]_vars

\* C5: the window never holds more than max_records records.
C5_LengthWithinCapacity == Len(candles) <= max_records

\* a full window that live frames and history pages both wrote to
C5_Witness ==
    /\ max_records >= 3
    /\ Len(candles) = max_records
    /\ requests_executed >= 2
    /\ merge_outcome = "append"

\* C6: a live frame whose timestamp equals the newest record's replaces
\* exactly the newest record: same length, every other record keeps its value
\* and position, and the newest record is the incoming one.
C6_EqualTimestampReplacesNewest ==
    [][\A sec \in 1..MaxSec, close \in ClosePrices :
          (/\ Len(candles) > 0
           /\ ToMs(sec) = candles[Len(candles)].timestamp
           /\ RecvCandle(sec, close))
          => candles' = [candles EXCEPT ![Len(candles)] = CandlesArray(sec, close)]
      ]_vars

\* the last frame replaced the newest record of a window of several records
C6_Witness ==
    /\ merge_outcome = "replace"
    /\ Len(candles) >= 3
    /\ candles[Len(candles)].close = 2

\* C7: a live frame whose timestamp is smaller than the newest record's leaves
\* the window unchanged, raises nothing (the listener keeps streaming) and
\* starts no backfill.
C7_StaleFrameChangesNothing ==
    [][\A sec \in 1..MaxSec, close \in ClosePrices :
          (/\ Len(candles) > 0
           /\ ToMs(sec) < candles[Len(candles)].timestamp
           /\ RecvCandle(sec, close))
          => /\ candles' = candles
             /\ ws_pc' = "streaming"
             /\ UNCHANGED fill_vars
      ]_vars

\* the last frame was stale
C7_Witness ==
    /\ merge_outcome = "stale"
    /\ Len(candles) >= 2

\* C8: fill_historical_candles is scheduled at most once per feed: by the
\* frame that finds the window empty, and never again, whatever frames and
\* reconnections follow.
C8_BackfillStartedAtMostOnce ==
    /\ fill_started <= 1
    /\ (fill_started = 1) <=> (Len(candles) > 0)

\* the backfill has run to its end, further frames arrived and the listener
\* is reconnecting
C8_Witness ==
    /\ fill_started = 1
    /\ fpc = "done"
    /\ merge_outcome = "stale"
    /\ ws_pc = "connecting"

\* C9: no candle-history request is issued before the first live record is in
\* the window; while the venue has pushed no candle frame the window is empty,
\* the feed is not ready and the backfill task has not started.
C9_NoHistoryBeforeFirstFrame ==
    /\ history_requested => (Len(candles) > 0 /\ merge_outcome # "none")
    /\ merge_outcome = "none" =>
          /\ candles = <<>>
          /\ ~Ready(candles, max_records)
          /\ fpc = "idle"
          /\ ~history_requested

\* a history request in flight after the first frame
C9_Witness ==
    /\ history_requested
    /\ fpc = "fetch"
    /\ merge_outcome = "first"

\* C10: from a window holding only the live record, one page of
\* max_records - 1 older rows followed by the edge row (the row of the live
\* record's timestamp) makes the window those rows in ascending order followed
\* by the live record, and the feed ready.  End-to-end scenario 1 is the case
\* max_records = 5 with four older rows; with max_records = 4, the live record
\* at 4000 and the page 1000, 2000, 3000, 4000 it is the same scenario one
\* record shorter.
C10_OnePageFillsWindowAscending ==
    [][\A page \in Pages(end_timestamp) :
          (/\ Len(candles) = 1
           /\ Len(page) = max_records
           /\ page[Len(page)].timestamp = candles[1].timestamp
           /\ FetchOk(page))
          => /\ candles' = SubSeq(page, 1, Len(page) - 1) \o candles
             /\ Ready(candles', max_records)
      ]_vars

(***************************************************************************)
(* Properties of the backfill loop                                          *)
(***************************************************************************)
CeilDiv(a, b) == (a + b - 1) \div b

\* the budget of successful requests is spent
Exhausted == requests_executed >= max_request_needed

Terminal == {"done", "cancelled", "failed"}

\* C11: the number of successful history requests of the backfill loop never
\* exceeds ceil(max_records / MAX_RECORDS_LIMIT) + 1.
C11_SuccessfulRequestsWithinBudget ==
    requests_executed <= CeilDiv(max_records, MAX_RECORDS_LIMIT) + 1

\* the loop has spent its whole budget and the window is still short
C11_Witness ==
    /\ requests_executed = max_request_needed
    /\ max_records >= 3
    /\ ~Ready(candles, max_records)
    /\ fpc = "sleep"

\* C12: once started, fill_historical_candles eventually reaches a terminal
\* state (it returns, or it ends with an error or a cancellation), provided
\* history requests eventually return.
C12_BackfillTerminates == (fpc = "symbols") ~> (fpc \in Terminal)

\* C13: when the budget is spent and the window is short, the loop does not
\* take the wait-one-second-and-retry path: it ends with an error.
C13_ExhaustionIsFatal ==
    [][(fpc = "loop" /\ Exhausted /\ ~Ready(candles, max_records) /\ fpc' # fpc)
          => fpc' = "failed"
      ]_vars

\* C14: once the budget is spent it stays spent, and no candle-history request
\* is issued any more.
C14_NoRequestAfterExhaustion ==
    [][Exhausted => (Exhausted' /\ (fpc' = "fetch" => fpc = "fetch"))]_vars

\* the budget is spent, the loop keeps going round and live frames keep coming
C14_Witness ==
    /\ Exhausted
    /\ ~Ready(candles, max_records)
    /\ fpc = "sleep"
    /\ merge_outcome = "append"

C16_FailedRequestIsRetried ==
    [][/\ (retry_pending' /\ ~retry_pending)
            => /\ fpc' = "sleep"
               /\ candles' = candles
               /\ requests_executed' = requests_executed
       /\ (fpc = "loop" /\ retry_pending /\ fpc' # fpc)
            => /\ fpc' = "fetch"
               /\ end_timestamp' = end_timestamp
      ]_vars

\* C16 amended: as C16, but after the delay the request is issued again only
\* if the window is still short; if live frames have filled the window in the
\* meantime the loop returns without a request.
C16_FailedRequestIsRetriedUnlessReady ==
    [][/\ (retry_pending' /\ ~retry_pending)
            => /\ fpc' = "sleep"
               /\ candles' = candles
               /\ requests_executed' = requests_executed
       /\ (fpc = "loop" /\ retry_pending /\ fpc' # fpc)
            => \/ /\ ~Ready(candles, max_records)
                  /\ fpc' = "fetch"
                  /\ end_timestamp' = end_timestamp
                  /\ requests_executed' = requests_executed
               \/ /\ Ready(candles, max_records)
                  /\ fpc' = "done"
      ]_vars

\* a request failed after a page had been applied, the delay is over and the
\* loop is about to issue the request again
C16_Witness ==
    /\ retry_pending
    /\ fpc = "loop"
    /\ requests_executed = 1
    /\ ~Ready(candles, max_records)

\* C17: a cancellation delivered to the backfill task at one of its awaits
\* ends the task as cancelled at once, with the window, the request count and
\* the requests issued unchanged by that step; a cancelled task stays
\* cancelled and so issues no request afterwards.
C17_CancellationPropagates ==
    [][/\ FillCancel
            => /\ fpc' = "cancelled"
               /\ candles' = candles
               /\ requests_executed' = requests_executed
               /\ history_requested' = history_requested
       /\ fpc = "cancelled"
            => /\ fpc' = "cancelled"
               /\ requests_executed' = requests_executed
               /\ history_requested' = history_requested
      ]_vars

\* the task was cancelled with the window short, after a page and a failed
\* request, and live frames still arrive
C17_Witness ==
    /\ fpc = "cancelled"
    /\ retry_pending
    /\ requests_executed >= 1
    /\ ~Ready(candles, max_records)
    /\ merge_outcome = "append"

(***************************************************************************)
(* Properties of symbol resolution                                          *)
(***************************************************************************)
\* C18: once the map is populated without the configured pair, the resolved
\* identifier is None and symbols_ready returns false.
C18_AbsentPairResolvesToNotReady ==
    symbols_dict = "no_pair" =>
        /\ ex_trading_pair = "None"
        /\ ~symbols_ready_result(ex_trading_pair)

\* C19: when the populated map lacks the configured pair, no subscribe frame
\* is sent (the listener never streams) and no candle-history request is
\* issued; the backfill is never started.
C19_AbsentPairNeverProceeds ==
    symbols_dict = "no_pair" =>
        /\ ws_pc # "streaming"
        /\ ~history_requested
        /\ fpc = "idle"
        /\ candles = <<>>

\* the map lacks the pair, the subscription has failed and the owner is
\* connecting again
C19_Witness ==
    /\ symbols_dict = "no_pair"
    /\ last_symbols_fetch = "no_pair"
    /\ ws_pc = "connecting"

C21_PopulatedMapNeverChanges ==
    [][symbols_dict # "empty"
          => /\ symbols_dict' = symbols_dict
             /\ ex_trading_pair' = ex_trading_pair
             /\ last_symbols_fetch' = last_symbols_fetch
             /\ ~SubscribeSymbolsStep
      ]_vars

\* the map is populated, the backfill has been through its symbols_ready and
\* the listener is subscribing again after a reconnection
C21_Witness ==
    /\ symbols_dict = "has_pair"
    /\ ws_pc = "subscribing"
    /\ merge_outcome # "none"
    /\ fpc \notin {"idle", "symbols"}

(***************************************************************************)
(* Properties of the records and of the snapshot                            *)
(***************************************************************************)
\* C27: for every row in the venue order [timestamp, open, close, high, low,
\* volume] that the history request in flight can return, the record
\* fetch_candles builds has the row's open, high, low and close in its open,
\* high, low and close fields.
C27_RestRowRemapped ==
    fpc = "fetch" =>
        \A ms \in {g \in Grid : g <= end_timestamp}, c \in VenueCandles :
            LET rec == fetch_candles_row(RestRow(ms, c))
            IN /\ rec.open = c.open
               /\ rec.high = c.high
               /\ rec.low = c.low
               /\ rec.close = c.close

OhlcConsistent(rec) ==
    /\ rec.low <= rec.open /\ rec.open <= rec.high
    /\ rec.low <= rec.close /\ rec.close <= rec.high

\* C28: every record of the window has low <= open <= high and
\* low <= close <= high, the venue's candles all having it.
C28_WindowRecordsOhlcConsistent ==
    \A i \in 1..Len(candles) : OhlcConsistent(candles[i])

NonDecreasing(s) ==
    \A i \in 1..(Len(s) - 1) : s[i].timestamp <= s[i + 1].timestamp

Occurrences(s, x) == Cardinality({i \in 1..Len(s) : s[i] = x})

\* C29: whatever the order of the deque, every frame candles_df can return
\* lists the records of the window, each as often as the window holds it, by
\* ascending timestamp.
C29_SnapshotAscending ==
    \A df \in candles_df(candles) :
        /\ Len(df) = Len(candles)
        /\ NonDecreasing(df)
        /\ \A i \in 1..Len(candles) :
              Occurrences(df, candles[i]) = Occurrences(candles, candles[i])

\* a full window that is out of order in the deque and holds one timestamp
\* twice
C29_Witness ==
    /\ max_records >= 3
    /\ Len(candles) = max_records
    /\ ~NonDecreasing(candles)
    /\ Cardinality(TimestampSet(candles)) < Len(candles)

(***************************************************************************)
(* Properties of the keepalive                                              *)
(***************************************************************************)
\* C22: while the message loop runs and every gap between inbound frames has
\* stayed below ping_interval, no step sends a ping.
C22_NoPingWhileFramesFlow ==
    [][(ws_pc = "streaming" /\ steady) => pings_sent' = pings_sent]_vars

\* C23: a ping is sent only by the message loop whose deadline
\* _last_ws_message_sent_timestamp + _ping_interval has elapsed; the step
\* sends exactly one ping and sets _last_ws_message_sent_timestamp to the
\* current time before the send is awaited and the next wait begins, so the
\* deadline of the next wait lies ahead and the elapsed deadline brings no
\* second ping.
C23_OnePingPerElapsedDeadline ==
    [][/\ pings_sent' # pings_sent
            => /\ ws_pc = "streaming"
               /\ now >= last_ws_message_sent_timestamp + ping_interval
               /\ pings_sent' = pings_sent + 1
               /\ last_ws_message_sent_timestamp' = now
               /\ ws_pc' = "pinging"
               /\ now' < last_ws_message_sent_timestamp' + ping_interval'
       /\ last_ws_message_sent_timestamp' # last_ws_message_sent_timestamp
            => pings_sent' = pings_sent + 1
       /\ (ws_pc = "pinging" /\ ws_pc' = "streaming")
            => UNCHANGED <<pings_sent, last_ws_message_sent_timestamp>>
      ]_vars

\* the loop has pinged twice without a single inbound frame and waits again
C23_Witness ==
    /\ pings_sent >= 2
    /\ merge_outcome = "none"
    /\ ws_pc = "streaming"
    /\ now > last_ws_message_sent_timestamp

(***************************************************************************)
(* Properties of the connection and of the subscription                     *)
(***************************************************************************)
\* C24: in every connection attempt the socket is opened only after the
\* bootstrap call has returned a descriptor, and with that descriptor; the
\* message loop is entered only from a subscription that sent its frame, with
\* the symbol map populated; and frames are consumed only in the message
\* loop.
C24_ConnectionStepsInOrder ==
    [][/\ ws_pc' = "opening"
            => (ws_pc = "connecting" /\ connection_info' # "none")
       /\ (ws_pc' = "subscribing" /\ ws_pc # "subscribing")
            => (ws_pc = "opening" /\ ws_url' = connection_info)
       /\ (ws_pc' = "streaming" /\ ~InMessageLoop)
            => /\ ws_pc = "subscribing"
               /\ symbols_dict # "empty"
               /\ listener_exit' = "returned"
       /\ (listener_exit' = "returned" /\ ws_pc = "subscribing" /\ ws_pc' # ws_pc)
            => symbols_dict # "empty"
       /\ (candles' # candles \/ merge_outcome' # merge_outcome)
            => (ws_pc = "streaming" /\ listener_exit = "returned")
      ]_vars

\* the second connection attempt got another descriptor, subscribed and is
\* consuming frames
C24_Witness ==
    /\ ws_pc = "streaming"
    /\ connection_info = "d2"
    /\ ws_url = "d2"
    /\ merge_outcome = "append"

\* C25: whatever goes wrong in _subscribe_channels (the instrument-list
\* request, the lookup of the pair for the topic, the send of the frame), the
\* call ends by raising to its caller and the listener does not go on to the
\* message loop; a cancellation ends the call as a cancellation.
C25_SubscribeErrorsReraised ==
    [][/\ ListenSymbols("error")
            => (listener_exit' = "raised" /\ ws_pc' = "connecting")
       /\ \A sent \in BOOLEAN :
             (SendFault(sent) # "none" /\ ListenSubscribe(sent))
                => (listener_exit' = "raised" /\ ws_pc' = "connecting")
       /\ ListenCancel
            => (listener_exit' = "cancelled" /\ ws_pc' = "cancelled")
      ]_vars

\* the send of the subscribe frame failed with the pair resolved, and the
\* owner is connecting again
C25_Witness ==
    /\ listener_exit = "raised"
    /\ symbols_dict = "has_pair"
    /\ ws_pc = "connecting"
    /\ merge_outcome = "none"
    /\ ws_url # "none"

\* C26: a frame the handler cannot parse is dropped: the window is unchanged
\* and the message loop goes on to the next frame.
C26_MalformedFrameDropped ==
    [][\A payload \in MalformedPayloads :
          OnMalformed(payload) => (candles' = candles /\ ws_pc' = "streaming")
      ]_vars

(***************************************************************************)
(* Properties of the statements on the window                               *)
(***************************************************************************)
\* C30: whenever the event loop can run another task (the backfill loop, the
\* message handler, a reader of candles_df, the keepalive timeout), no deque
\* statement of a writer is pending and the window is what the writer's
\* whole mutation makes of it (the merge of the frame, the prepend of the
\* page); no read of candles_df has seen anything else.
C30_WindowMutationsAtomic ==
    /\ running = "none" => (todo = <<>> /\ candles = committed)
    /\ snapshot_ok

\* the message handler is between the pop and the append of a replacement
\* while the backfill's request is in flight
C30_Witness ==
    /\ running = "ws"
    /\ Len(todo) = 1
    /\ merge_outcome = "replace"
    /\ candles # committed
    /\ fpc = "fetch"

(***************************************************************************)
(* Properties of the history requests                                       *)
(***************************************************************************)
\* C31: every history request of the backfill loop, the first and every later
\* one, takes as its end time the smallest timestamp in the window at that
\* moment.
C31_RequestEndsAtSmallestTimestamp ==
    [][FillRequest => end_timestamp' = MinTimestamp(candles)]_vars

\* the rows of a page whose timestamp the window does not hold yet
FreshRows(page, dq) ==
    SelectSeq(page, LAMBDA row : row.timestamp \notin TimestampSet(dq))

\* the last n items of a sequence
LastRows(s, n) == SubSeq(s, IF Len(s) - n < 0 THEN 1 ELSE Len(s) - n + 1, Len(s))

\* C32: of a history page, a row whose timestamp is not yet in the window and
\* which is among the newest rows that the free slots can take is never left
\* out, whether or not the page ends with the edge row.
C32_OnlyEdgeRowLeftOut ==
    [][\A page \in Pages(end_timestamp) :
          FetchOk(page)
          => \A row \in {LastRows(FreshRows(page, candles),
                                  max_records - Len(candles))[i] :
                           i \in 1..Len(LastRows(FreshRows(page, candles),
                                                 max_records - Len(candles)))} :
                row.timestamp \in TimestampSet(candles')
      ]_vars

\* C33: one run of the backfill loop issues finitely many history requests,
\* failed ones included: from some point on no request is in flight any more,
\* even when every request fails.
C33_RequestsEventuallyStop == <>[](fpc # "fetch")

(***************************************************************************)
(* Properties of the keepalive state                                        *)
(***************************************************************************)
\* seconds_until_next_ping as the code computes it
seconds_until_next_ping == ping_interval - (now - last_ws_message_sent_timestamp)

\* C34: a processed inbound frame changes neither
\* _last_ws_message_sent_timestamp nor _ping_interval and leaves the loop
\* waiting, so the wait that follows it runs against the same
\* _ping_interval - (now - _last_ws_message_sent_timestamp); that time is
\* written by the timeout branch only, and the timeout branch is taken only
\* when the deadline has run out.
C34_FramesKeepKeepaliveState ==
    [][/\ KeepaliveCandleMsg
            => /\ UNCHANGED <<last_ws_message_sent_timestamp, ping_interval>>
               /\ seconds_until_next_ping' = seconds_until_next_ping
               /\ ws_pc' = "streaming"
       /\ last_ws_message_sent_timestamp' # last_ws_message_sent_timestamp
            => /\ KeepaliveTimeout
               /\ seconds_until_next_ping <= 0
      ]_vars

\* after a ping, a frame has come in before the deadline of the next ping and
\* the loop is waiting for the next one
C34_Witness ==
    /\ ws_pc = "streaming"
    /\ pings_sent >= 1
    /\ merge_outcome = "append"
    /\ last_message_at > last_ws_message_sent_timestamp
    /\ seconds_until_next_ping > 0

(***************************************************************************)
(* Properties of the prepend                                                *)
(***************************************************************************)
\* C35: the batch a page leaves to insert has at most as many rows as the
\* window has free slots when the page is applied, whatever live frames did
\* to the window while the request was in flight; every row of the batch goes
\* to the left end and the records already in the window, the newest
\* included, keep their places at the right end.
C35_PrependKeepsRightEnd ==
    [][/\ \A page \in Pages(end_timestamp) :
             FillPage(page)
             => /\ Len(todo') <= max_records - Len(candles)
                /\ Len(committed') = Len(todo') + Len(candles)
                /\ SubSeq(committed', Len(todo') + 1, Len(committed')) = candles
       /\ (running = "fill" /\ Statement)
             => candles' = <<Head(todo).rec>> \o candles
      ]_vars

\* live frames have filled the window while the request was in flight: the
\* page is being applied to a window without a free slot, whose leftmost
\* record is still the one the request was made from, and its batch is empty
C35_Witness ==
    /\ running = "fill"
    /\ max_records >= 3
    /\ Ready(candles, max_records)
    /\ candles[1].timestamp = end_timestamp
    /\ merge_outcome = "append"
    /\ todo = <<>>
    /\ committed = candles

\* C36: a bootstrap or a ping of one feed changes neither the _ping_interval
\* nor the _last_ws_message_sent_timestamp that any other feed reads when it
\* computes its deadline.
C36_KeepaliveStatePerFeed ==
    [][\A f \in Feeds :
          (FeedTimeout(f) \/ \E interval \in PingIntervals : FeedBootstrap(f, interval))
          => \A g \in Feeds \ {f} :
                /\ feed_ping_interval(g)' = feed_ping_interval(g)
                /\ feed_last_ws_message_sent_timestamp(g)'
                      = feed_last_ws_message_sent_timestamp(g)
      ]_vars

\* both feeds are in their message loops, with different ping intervals and
\* pings sent at different times
C36_Witness ==
    /\ \A f \in Feeds : feed_pc[f] = "streaming"
    /\ feed_ping_interval("a") # feed_ping_interval("b")
    /\ feed_last_ws_message_sent_timestamp("a") > Epoch
    /\ feed_last_ws_message_sent_timestamp("b")
          > feed_last_ws_message_sent_timestamp("a")

(***************************************************************************)
(* Properties of the frames without a candle                                *)
(***************************************************************************)
\* C37: a frame whose data has no candle payload (welcome, subscription ack,
\* pong, a message on another subject) leaves the window as it is and does
\* not schedule the backfill task, whether the window is empty or not.
C37_ControlFrameChangesNothing ==
    [][\A msg \in ControlFrames :
          OnFrame(msg)
          => /\ candles' = candles
             /\ UNCHANGED fill_vars
      ]_vars

\* the last frame had no candle payload and found the window empty: the
\* backfill task has not been scheduled
C37_Witness ==
    /\ merge_outcome = "skipped"
    /\ ws_pc = "streaming"
    /\ candles = <<>>
    /\ fill_started = 0
    /\ fpc = "idle"

(***************************************************************************)
(* Properties of the base asset                                             *)
(***************************************************************************)
\* C38: kucoin_base_asset is the venue name HB_TO_KUCOIN_MAP gives for the
\* base asset when the asset is a key of the map, wherever in the map the key
\* is, and the base asset itself when it is not a key.
C38_BaseAssetMappedForEveryKey ==
    kucoin_base_asset = MapGet(HB_TO_KUCOIN_MAP, hb_base_asset)

====
